---- MODULE Spec2Model ----
(***************************************************************************)
(* State-machine model of src/src/App.tsx: the App component's state, the  *)
(* auth subscription, the [user] effect (loadSavedJobs, loadInitialJobs),  *)
(* handleSearch, toggleSaveJob and the view derived from the state.        *)
(* Every await is a suspension point: the part of a handler before it and  *)
(* the continuation after it are separate actions, and the remote service  *)
(* settles the call in between.                                            *)
(***************************************************************************)
EXTENDS Naturals, Sequences, FiniteSets, TLC

\* ---------------------------------------------------------------- bounds
MaxCalls == 2       \* AI-generation calls in flight at once
MaxToggles == 1     \* toggleSaveJob invocations in flight at once
MaxLoads == 1       \* loadSavedJobs invocations in flight at once
MaxClock == 2       \* values Date.now() takes
MaxAuth == 2        \* auth-state emissions in one behaviour
MaxSearches == 2    \* generation calls issued by handleSearch in one behaviour
MaxClicks == 2      \* bookmark clicks in one behaviour

\* ---------------------------------------------------------------- inputs
Users == {"u1", "u2"}
NoUser == "null"
JobIds == {"j1", "j2"}
JobLists == {<<"j1">>, <<"j1", "j2">>}
Queries == {<<>>, <<" ">>, <<" ", "a">>}

VARIABLES
  user,          \* useState(null): the signed-in user's id, or NoUser
  loading,       \* useState(true)
  searchQuery,   \* useState(''): the text, as a sequence of characters
  jobs,          \* useState<Job[]>([]): the postings, by id
  searchLoading, \* useState(false)
  savedJobs,     \* useState<string[]>([])
  localStorage,  \* the browser's key-value store: key -> stored text
  db,            \* the remote savedJobs collection: a set of records
  now,           \* the clock read by Date.now()
  aiCalls,       \* generateObject calls in flight, in submission order
  loads,         \* loadSavedJobs invocations in flight
  toggles,       \* toggleSaveJob invocations in flight
  everSaved,     \* history: per user, the job ids the user asked to save
  nAuth,         \* auth-state emissions so far
  nSearches,     \* generation calls issued by handleSearch so far
  nClicks        \* bookmark clicks so far

vars == <<user, loading, searchQuery, jobs, searchLoading, savedJobs,
          localStorage, db, now, aiCalls, loads, toggles, everSaved,
          nAuth, nSearches, nClicks>>

counters == <<nAuth, nSearches, nClicks>>

\* ---------------------------------------------------------------- helpers
Range(s) == {s[i] : i \in 1..Len(s)}

RemoveAt(s, i) == SubSeq(s, 1, i - 1) \o SubSeq(s, i + 1, Len(s))

\* savedJobs.includes(jobId)
includes(s, x) == \E i \in 1..Len(s) : s[i] = x

\* savedJobs.filter(id => id !== jobId)
RECURSIVE filter(_, _)
filter(s, x) ==
  IF s = <<>> THEN <<>>
  ELSE IF s[1] = x THEN filter(Tail(s), x)
  ELSE <<s[1]>> \o filter(Tail(s), x)

\* String.prototype.trim on a sequence of characters
RECURSIVE trimStart(_)
trimStart(q) ==
  IF q # <<>> /\ q[1] = " " THEN trimStart(Tail(q)) ELSE q

RECURSIVE trimEnd(_)
trimEnd(q) ==
  IF q # <<>> /\ q[Len(q)] = " " THEN trimEnd(SubSeq(q, 1, Len(q) - 1)) ELSE q

trim_NoStrip(q) == q

trim(q) == trimEnd(trimStart(q))

\* JSON.stringify of an array of strings: the text as a sequence of tokens
RECURSIVE JoinComma(_)
JoinComma(s) ==
  IF s = <<>> THEN <<>>
  ELSE IF Len(s) = 1 THEN <<s[1]>>
  ELSE <<s[1], ",">> \o JoinComma(Tail(s))

JSONstringify(s) == <<"[">> \o JoinComma(s) \o <<"]">>

\* JSON.parse of such a text
JSONparse(t) ==
  LET inner == SubSeq(t, 2, Len(t) - 1)
  IN  [i \in 1..((Len(inner) + 1) \div 2) |-> inner[2 * i - 1]]

\* `savedJobs_${user.id}`
Key(u) == "savedJobs_" \o u

\* localStorage.setItem(k, text)
setItem(store, k, text) ==
  [x \in DOMAIN store \cup {k} |-> IF x = k THEN text ELSE store[x]]

\* `if (localSaved)`: getItem returned a non-empty text
hasItem(store, k) == k \in DOMAIN store /\ store[k] # <<>>

\* `saved_${Date.now()}`
SavedId(t) == "saved_" \o ToString(t)

\* ---------------------------------------------------------------- remote collection
\* blink.db.savedJobs.list({ where: { userId } }): the user's records, oldest first
RECURSIVE ListFrom(_, _, _)
ListFrom(d, u, t) ==
  IF t > MaxClock + 1 THEN <<>>
  ELSE LET here == {r \in d : r.userId = u /\ r.createdAt = t}
       IN  (IF here = {} THEN <<>> ELSE <<(CHOOSE r \in here : TRUE).jobId>>)
           \o ListFrom(d, u, t + 1)

DbList(d, u) == ListFrom(d, u, 1)

\* blink.db.savedJobs.create(record): records are keyed by id
DbCanCreate(d, rec) == \A r \in d : r.id # rec.id

DbCreate(d, rec) == d \cup {rec}

\* blink.db.savedJobs.delete(id): removes the record with that id
DbDelete(d, id) == {r \in d : r.id # id}

\* ---------------------------------------------------------------- view
\* the render's three early returns and the skeleton/grid switch
View ==
  IF loading THEN "loading"
  ELSE IF user = NoUser THEN "signin"
  ELSE IF searchLoading THEN "skeletons"
  ELSE "grid"

\* jobs.map(job => <Card .../>): the job cards on screen
DisplayedCards == IF View = "grid" THEN Len(jobs) ELSE 0

\* ---------------------------------------------------------------- initial state
Init ==
  /\ user = NoUser
  /\ loading = TRUE
  /\ searchQuery = <<>>
  /\ jobs = <<>>
  /\ searchLoading = FALSE
  /\ savedJobs = <<>>
  /\ localStorage = <<>>
  /\ db = {}
  /\ now = 1
  /\ aiCalls = <<>>
  /\ loads = <<>>
  /\ toggles = <<>>
  /\ everSaved = [u \in Users |-> {}]
  /\ nAuth = 0
  /\ nSearches = 0
  /\ nClicks = 0

\* ---------------------------------------------------------------- actions
\* Date.now() advances
Tick ==
  /\ now < MaxClock
  /\ now' = now + 1
  /\ UNCHANGED <<user, loading, searchQuery, jobs, searchLoading, savedJobs,
                 localStorage, db, aiCalls, loads, toggles, everSaved, counters>>

\* onAuthStateChanged callback, and the [user] effect it triggers when the
\* user value changes (fresh: the emission carries a new user object):
\* loadSavedJobs() and loadInitialJobs() run up to their first await.
\* An emission that changes neither user nor loading is left out: it is a
\* stuttering step.
onAuthStateChanged(u, l, fresh) ==
  /\ user' = u
  /\ loading' = l
  /\ IF u # NoUser /\ (u # user \/ fresh)
     THEN /\ Len(aiCalls) < MaxCalls
          /\ Len(loads) < MaxLoads
          /\ loads' = Append(loads, [user |-> u, pc |-> "wait", result |-> <<>>])
          /\ searchLoading' = TRUE
          /\ aiCalls' = Append(aiCalls, [kind |-> "initial", seq |-> 0])
     ELSE /\ (u # user \/ l # loading)
          /\ UNCHANGED <<loads, searchLoading, aiCalls>>
  /\ nAuth < MaxAuth
  /\ nAuth' = nAuth + 1
  /\ UNCHANGED <<searchQuery, jobs, savedJobs, localStorage, db, now, toggles,
                 everSaved, nSearches, nClicks>>

\* the list call of loadSavedJobs settles at the remote collection
DbListSettle(i, ok) ==
  /\ i \in 1..Len(loads)
  /\ loads[i].pc = "wait"
  /\ loads' = [loads EXCEPT ![i] =
                 IF ok THEN [user |-> loads[i].user, pc |-> "ok",
                             result |-> DbList(db, loads[i].user)]
                 ELSE [user |-> loads[i].user, pc |-> "err", result |-> <<>>]]
  /\ UNCHANGED <<user, loading, searchQuery, jobs, searchLoading, savedJobs,
                 localStorage, db, now, aiCalls, toggles, everSaved, counters>>

\* loadSavedJobs after its await: setSavedJobs from the records, or the catch
loadSavedJobsResume(i) ==
  /\ i \in 1..Len(loads)
  /\ loads[i].pc \in {"ok", "err"}
  /\ savedJobs' =
       IF loads[i].pc = "ok" THEN loads[i].result
       ELSE IF hasItem(localStorage, Key(loads[i].user))
            THEN JSONparse(localStorage[Key(loads[i].user)])
            ELSE savedJobs
  /\ loads' = RemoveAt(loads, i)
  /\ UNCHANGED <<user, loading, searchQuery, jobs, searchLoading, localStorage,
                 db, now, aiCalls, toggles, everSaved, counters>>

loadInitialJobsResume_FlagKept(i, ok, J) ==
  /\ i \in 1..Len(aiCalls)
  /\ aiCalls[i].kind = "initial"
  /\ jobs' = IF ok THEN J ELSE jobs
  /\ searchLoading' = searchLoading
  /\ aiCalls' = RemoveAt(aiCalls, i)
  /\ UNCHANGED <<user, loading, searchQuery, savedJobs, localStorage, db, now,
                 loads, toggles, everSaved, counters>>

\* loadInitialJobs after its await: setJobs / catch / finally
loadInitialJobsResume(i, ok, J) ==
  /\ i \in 1..Len(aiCalls)
  /\ aiCalls[i].kind = "initial"
  /\ jobs' = IF ok THEN J ELSE jobs
  /\ searchLoading' = FALSE
  /\ aiCalls' = RemoveAt(aiCalls, i)
  /\ UNCHANGED <<user, loading, searchQuery, savedJobs, localStorage, db, now,
                 loads, toggles, everSaved, counters>>

\* onChange of the search input
setSearchQuery(q) ==
  /\ View \in {"grid", "skeletons"}
  /\ q # searchQuery
  /\ searchQuery' = q
  /\ UNCHANGED <<user, loading, jobs, searchLoading, savedJobs, localStorage,
                 db, now, aiCalls, loads, toggles, everSaved, counters>>

\* handleSearch up to its await, from the Enter key or from the button
\* (the button is disabled while searchLoading)
handleSearch(via) ==
  /\ View \in {"grid", "skeletons"}
  /\ via = "button" => ~searchLoading
  /\ IF trim(searchQuery) = <<>>
     THEN UNCHANGED vars
     ELSE /\ Len(aiCalls) < MaxCalls
          /\ nSearches < MaxSearches
          /\ nSearches' = nSearches + 1
          /\ searchLoading' = TRUE
          /\ aiCalls' = Append(aiCalls, [kind |-> "search", seq |-> nSearches + 1])
          /\ UNCHANGED <<user, loading, searchQuery, jobs, savedJobs,
                         localStorage, db, now, loads, toggles, everSaved,
                         nAuth, nClicks>>

handleSearchResume_NoFinally(i, ok, J) ==
  /\ i \in 1..Len(aiCalls)
  /\ aiCalls[i].kind = "search"
  /\ jobs' = IF ok THEN J ELSE jobs
  /\ searchLoading' = IF ok THEN FALSE ELSE searchLoading
  /\ aiCalls' = RemoveAt(aiCalls, i)
  /\ UNCHANGED <<user, loading, searchQuery, savedJobs, localStorage, db, now,
                 loads, toggles, everSaved, counters>>

handleSearchResume_Fenced(i, ok, J) ==
  /\ i \in 1..Len(aiCalls)
  /\ aiCalls[i].kind = "search"
  /\ jobs' = IF ok /\ i = Len(aiCalls) THEN J ELSE jobs
  /\ searchLoading' = FALSE
  /\ aiCalls' = RemoveAt(aiCalls, i)
  /\ UNCHANGED <<user, loading, searchQuery, savedJobs, localStorage, db, now,
                 loads, toggles, everSaved, counters>>

\* handleSearch after its await: setJobs / catch / finally
handleSearchResume(i, ok, J) ==
  /\ i \in 1..Len(aiCalls)
  /\ aiCalls[i].kind = "search"
  /\ jobs' = IF ok THEN J ELSE jobs
  /\ searchLoading' = FALSE
  /\ aiCalls' = RemoveAt(aiCalls, i)
  /\ UNCHANGED <<user, loading, searchQuery, savedJobs, localStorage, db, now,
                 loads, toggles, everSaved, counters>>

\* toggleSaveJob up to its await: the click on a card's bookmark button reads
\* savedJobs and user of the current render and issues delete or create
toggleSaveJob(j) ==
  /\ View = "grid"
  /\ includes(jobs, j)
  /\ Len(toggles) < MaxToggles
  /\ nClicks < MaxClicks
  /\ nClicks' = nClicks + 1
  /\ toggles' = Append(toggles,
        [user |-> user, jobId |-> j, snap |-> savedJobs, pc |-> "wait",
         at |-> IF includes(savedJobs, j) THEN 0 ELSE now])
  /\ everSaved' = IF includes(savedJobs, j) THEN everSaved
                  ELSE [everSaved EXCEPT ![user] = @ \cup {j}]
  /\ UNCHANGED <<user, loading, searchQuery, jobs, searchLoading, savedJobs,
                 localStorage, db, now, aiCalls, loads, nAuth, nSearches>>

\* the record toggleSaveJob's add branch sends to create
NewRecord(t) ==
  [id |-> SavedId(t.at), userId |-> t.user, jobId |-> t.jobId, createdAt |-> t.at]

\* the delete or create call of toggleSaveJob settles at the remote collection
DbWriteSettle(i, ok) ==
  /\ i \in 1..Len(toggles)
  /\ toggles[i].pc = "wait"
  /\ IF ok
     THEN IF includes(toggles[i].snap, toggles[i].jobId)
          THEN db' = DbDelete(db, toggles[i].jobId)
          ELSE /\ DbCanCreate(db, NewRecord(toggles[i]))
               /\ db' = DbCreate(db, NewRecord(toggles[i]))
     ELSE db' = db
  /\ toggles' = [toggles EXCEPT ![i].pc = IF ok THEN "ok" ELSE "err"]
  /\ UNCHANGED <<user, loading, searchQuery, jobs, searchLoading, savedJobs,
                 localStorage, now, aiCalls, loads, everSaved, counters>>

newSavedJobs_NoRemove(t) == Append(t.snap, t.jobId)

\* newSavedJobs of either branch of toggleSaveJob
newSavedJobs(t) ==
  IF includes(t.snap, t.jobId) THEN filter(t.snap, t.jobId)
  ELSE Append(t.snap, t.jobId)

toggleSaveJobResume_Pessimistic(i) ==
  /\ i \in 1..Len(toggles)
  /\ toggles[i].pc \in {"ok", "err"}
  /\ IF toggles[i].pc = "ok"
     THEN /\ savedJobs' = newSavedJobs(toggles[i])
          /\ localStorage' = setItem(localStorage, Key(toggles[i].user),
                                     JSONstringify(newSavedJobs(toggles[i])))
     ELSE UNCHANGED <<savedJobs, localStorage>>
  /\ toggles' = RemoveAt(toggles, i)
  /\ UNCHANGED <<user, loading, searchQuery, jobs, searchLoading, db, now,
                 aiCalls, loads, everSaved, counters>>

\* toggleSaveJob after its await, whether the call threw or not:
\* setSavedJobs(newSavedJobs) and localStorage.setItem
toggleSaveJobResume(i) ==
  /\ i \in 1..Len(toggles)
  /\ toggles[i].pc \in {"ok", "err"}
  /\ savedJobs' = newSavedJobs(toggles[i])
  /\ localStorage' = setItem(localStorage, Key(toggles[i].user),
                             JSONstringify(newSavedJobs(toggles[i])))
  /\ toggles' = RemoveAt(toggles, i)
  /\ UNCHANGED <<user, loading, searchQuery, jobs, searchLoading, db, now,
                 aiCalls, loads, everSaved, counters>>

\* ---------------------------------------------------------------- specification
Next ==
  \/ Tick
  \/ \E u \in Users \cup {NoUser}, l \in BOOLEAN, fresh \in BOOLEAN :
       onAuthStateChanged(u, l, fresh)
  \/ \E i \in 1..MaxLoads, ok \in BOOLEAN : DbListSettle(i, ok)
  \/ \E i \in 1..MaxLoads : loadSavedJobsResume(i)
  \/ \E i \in 1..MaxCalls, ok \in BOOLEAN, J \in JobLists :
       loadInitialJobsResume(i, ok, J)
  \/ \E q \in Queries : setSearchQuery(q)
  \/ \E via \in {"enter", "button"} : handleSearch(via)
  \/ \E i \in 1..MaxCalls, ok \in BOOLEAN, J \in JobLists :
       handleSearchResume(i, ok, J)
  \/ \E j \in JobIds : toggleSaveJob(j)
  \/ \E i \in 1..MaxToggles, ok \in BOOLEAN : DbWriteSettle(i, ok)
  \/ \E i \in 1..MaxToggles : toggleSaveJobResume(i)

Spec == Init /\ [][Next]_vars

\* The same program when the remote collection never fails and the user
\* waits for one bookmark toggle to finish before starting the next.
NextReliable ==
  \/ Tick
  \/ \E u \in Users \cup {NoUser}, l \in BOOLEAN, fresh \in BOOLEAN :
       onAuthStateChanged(u, l, fresh)
  \/ \E i \in 1..MaxLoads : DbListSettle(i, TRUE)
  \/ \E i \in 1..MaxLoads : loadSavedJobsResume(i)
  \/ \E i \in 1..MaxCalls, ok \in BOOLEAN, J \in JobLists :
       loadInitialJobsResume(i, ok, J)
  \/ \E q \in Queries : setSearchQuery(q)
  \/ \E via \in {"enter", "button"} : handleSearch(via)
  \/ \E i \in 1..MaxCalls, ok \in BOOLEAN, J \in JobLists :
       handleSearchResume(i, ok, J)
  \/ \E j \in JobIds : toggles = <<>> /\ toggleSaveJob(j)
  \/ \E i \in 1..MaxToggles : DbWriteSettle(i, TRUE)
  \/ \E i \in 1..MaxToggles : toggleSaveJobResume(i)

SpecReliable == Init /\ [][NextReliable]_vars

\* The same program when the user never clicks a bookmark: handleSearch and
\* loadInitialJobs neither read nor write savedJobs, localStorage, the remote
\* collection or the clock, so the search behaviour is the same as under Spec.
NextSearch ==
  \/ \E u \in Users \cup {NoUser}, l \in BOOLEAN, fresh \in BOOLEAN :
       onAuthStateChanged(u, l, fresh)
  \/ \E i \in 1..MaxLoads, ok \in BOOLEAN : DbListSettle(i, ok)
  \/ \E i \in 1..MaxLoads : loadSavedJobsResume(i)
  \/ \E i \in 1..MaxCalls, ok \in BOOLEAN, J \in JobLists :
       loadInitialJobsResume(i, ok, J)
  \/ \E q \in Queries : setSearchQuery(q)
  \/ \E via \in {"enter", "button"} : handleSearch(via)
  \/ \E i \in 1..MaxCalls, ok \in BOOLEAN, J \in JobLists :
       handleSearchResume(i, ok, J)

SpecSearch == Init /\ [][NextSearch]_vars

\* ---------------------------------------------------------------- claims
\* the list stored under a user's key; nothing stored reads as no saved job
StoredList(u) ==
  IF hasItem(localStorage, Key(u)) THEN JSONparse(localStorage[Key(u)]) ELSE <<>>

IsBlank(q) == \A k \in 1..Len(q) : q[k] = " "

\* C1: a toggleSaveJob(j) invoked while j is not in the in-memory saved set
\* ends with j in the saved set and in the list stored under the invoking
\* user's key; an invocation made while j is in the saved set takes the
\* remove branch and ends with j in neither.
C1_ToggleOnOff ==
  [][ /\ \A i \in 1..Len(toggles) :
           toggleSaveJobResume(i) =>
             LET t == toggles[i]
                 stored == JSONparse(localStorage'[Key(t.user)])
             IN  IF includes(t.snap, t.jobId)
                 THEN ~includes(savedJobs', t.jobId) /\ ~includes(stored, t.jobId)
                 ELSE includes(savedJobs', t.jobId) /\ includes(stored, t.jobId)
      /\ \A j \in JobIds :
           toggleSaveJob(j) =>
             /\ toggles'[Len(toggles')].jobId = j
             /\ toggles'[Len(toggles')].user = user
             /\ toggles'[Len(toggles')].snap = savedJobs
    ]_vars

\* C1 witness: a save followed by an unsave has completed: the signed-in
\* user's key holds the empty list that only a remove writes.
C1_Witness ==
  /\ user # NoUser
  /\ toggles = <<>>
  /\ savedJobs = <<>>
  /\ hasItem(localStorage, Key(user))
  /\ JSONparse(localStorage[Key(user)]) = <<>>

\* C2: when toggleSaveJob completes, whether its remote call succeeded or
\* threw, the saved set is the set at invocation with j toggled, the list
\* stored under the invoking user's key is that same list, the local state
\* differs from what it was at invocation, and the view is what it was.
C2_OptimisticUpdate ==
  [][ \A i \in 1..Len(toggles) :
        toggleSaveJobResume(i) =>
          LET t == toggles[i]
          IN  /\ t.pc \in {"ok", "err"}
              /\ Range(savedJobs') =
                   IF t.jobId \in Range(t.snap) THEN Range(t.snap) \ {t.jobId}
                   ELSE Range(t.snap) \cup {t.jobId}
              /\ hasItem(localStorage', Key(t.user))
              /\ JSONparse(localStorage'[Key(t.user)]) = savedJobs'
              /\ savedJobs' # t.snap
              /\ View' = View
    ]_vars

\* C2 witness: the saved set and the stored list hold j1 although the remote
\* collection holds no record: the create failed and the toggle still applied.
C2_Witness ==
  /\ user # NoUser
  /\ toggles = <<>>
  /\ db = {}
  /\ includes(savedJobs, "j1")
  /\ includes(StoredList(user), "j1")

C4_EmptySearchNoOp ==
  [][ \A via \in {"enter", "button"} :
        (handleSearch(via) /\ IsBlank(searchQuery))
        => UNCHANGED <<aiCalls, nSearches, jobs, searchLoading, savedJobs>>
    ]_vars

\* C4 witness: the search bar holds a whitespace-only text while a job list
\* is displayed and nothing is in flight.
C4_Witness ==
  /\ View = "grid"
  /\ searchQuery # <<>>
  /\ IsBlank(searchQuery)
  /\ jobs # <<>>
  /\ aiCalls = <<>>

\* C5: when a generation call fails, in the initial load or in a search, the
\* job list is unchanged, searchLoading is false afterwards and the user and
\* loading state, hence the choice between sign-in, spinner and main view,
\* are unchanged.
C5_GenerationFailure ==
  [][ \A i \in 1..Len(aiCalls), J \in JobLists :
        (loadInitialJobsResume(i, FALSE, J) \/ handleSearchResume(i, FALSE, J))
        => /\ jobs' = jobs
           /\ searchLoading' = FALSE
           /\ user' = user
           /\ loading' = loading
    ]_vars

\* C5 witness: a user is signed in, so an initial load was issued; nothing
\* is in flight, the flag is cleared and the list is still empty: every
\* response in JobLists has a job, so each call issued so far failed.
C5_Witness ==
  /\ View = "grid"
  /\ aiCalls = <<>>
  /\ jobs = <<>>

\* C6: when loadSavedJobs completes, the saved set is the jobIds of the
\* returned records if the list call succeeded, and the list stored under
\* savedJobs_<u.id> if it failed.
C6_LoadWithFallback ==
  [][ \A i \in 1..Len(loads) :
        loadSavedJobsResume(i) =>
          savedJobs' = IF loads[i].pc = "ok" THEN loads[i].result
                       ELSE StoredList(loads[i].user)
    ]_vars

\* C7: when the initial load's generation call succeeds for a signed-in
\* user, the view is the job grid and shows as many cards as the response
\* has jobs.
C7_InitialLoadDisplayed ==
  [][ \A i \in 1..Len(aiCalls), J \in JobLists :
        (loadInitialJobsResume(i, TRUE, J) /\ user # NoUser /\ ~loading)
        => View' = "grid" /\ DisplayedCards' = Len(J)
    ]_vars

\* C7 witness: the grid shows the two jobs of an initial load's response
\* (no search was ever issued).
C7_Witness ==
  /\ View = "grid"
  /\ nSearches = 0
  /\ aiCalls = <<>>
  /\ DisplayedCards = 2

\* C8: whenever a generation call is in flight, searchLoading is true.
C8_LoadingCoversInFlight == aiCalls # <<>> => searchLoading

\* C9: once the saved-jobs load of the signed-in user u has completed, the
\* saved set and the list stored under u's key hold only ids that u saved.
C9_SavedSetsIsolated ==
  (user # NoUser /\ \A i \in 1..Len(loads) : loads[i].user # user)
  => /\ Range(savedJobs) \subseteq everSaved[user]
     /\ Range(StoredList(user)) \subseteq everSaved[user]

\* C10: with no remote failure and no overlapping toggles, when a toggle
\* that unsaves j completes, the remote collection holds no record with that
\* user's id and jobId j.
C10_RemoteAgrees ==
  [][ \A i \in 1..Len(toggles) :
        (toggleSaveJobResume(i) /\ includes(toggles[i].snap, toggles[i].jobId))
        => ~\E r \in db' :
              r.userId = toggles[i].user /\ r.jobId = toggles[i].jobId
    ]_vars

====
